---- MODULE Spec2Model ----
(***************************************************************************)
(* Model of the straitjacket attribute macro (src/src/lib.rs).             *)
(*                                                                         *)
(* Two state machines share the module:                                    *)
(*   Spec    one expansion of #[straitjacket(..)] on a struct: the         *)
(*           attribute loop, StraitJacketBuilder::set / build and the      *)
(*           assembly of the output token stream;                          *)
(*   SpecRt  the code the expansion generates for the tests' MappingRule:  *)
(*           the three From conversions and the serde shape of the         *)
(*           envelope, tag and collection types.                           *)
(*                                                                         *)
(* Text is modelled as a sequence of one-character strings, so that case   *)
(* conversion, pluralisation and identifier validation are computed.       *)
(***************************************************************************)
EXTENDS Integers, Sequences, FiniteSets, TLC

VARIABLES
    item,        \* the item the attribute is applied to (TokenStream `item`)
    attr_ast,    \* syn::AttributeArgs: the parsed attribute list
    c,           \* lib.rs:315  clone of `item`, reproduced verbatim
    idx,         \* position of the `for` loop of lib.rs:328 in attr_ast
    sjbuilder,   \* lib.rs:325  the StraitJacketBuilder
    sj,          \* lib.rs:336  the StraitJacket, None until build() returns
    output,      \* lib.rs:404  the emitted token stream, None until emitted
    pc,          \* position of the macro in its body
    mrvec,       \* Vec<MappingRule> handed to From<Vec<..>> (lib.rs:370)
    mr,          \* the collection value (MappingRules), None when there is none
    origin,      \* how `mr` was obtained: "none", "from_vec" or "parsed"
    body,        \* the wire text handed to the deserializer
    wire,        \* what serializing `mr` produced
    back,        \* what deserializing `wire` gave: None, or Some(the Result)
    envs,        \* result of Vec<MappingRuleAndMetadata>::from(mr)
    items,       \* result of Vec<MappingRule>::from(mr)
    rpc          \* position of the program using the generated code

macro_vars == <<item, attr_ast, c, idx, sjbuilder, sj, output, pc>>
rt_vars == <<mrvec, mr, origin, body, wire, back, envs, items, rpc>>
vars == <<item, attr_ast, c, idx, sjbuilder, sj, output, pc,
          mrvec, mr, origin, body, wire, back, envs, items, rpc>>

\* Bounds of the model.
MaxAttrs == 2
MaxLen == 2

-----------------------------------------------------------------------------
(* Option<T> as a sequence of at most one element.                         *)
None == << >>
Some(x) == << x >>
is_some(o) == Len(o) = 1
unwrap(o) == o[1]

(* Characters.                                                             *)
UpperSeq == <<"A","B","C","D","E","F","G","H","I","J","K","L","M",
              "N","O","P","Q","R","S","T","U","V","W","X","Y","Z">>
LowerSeq == <<"a","b","c","d","e","f","g","h","i","j","k","l","m",
              "n","o","p","q","r","s","t","u","v","w","x","y","z">>
DigitSet == {"0","1","2","3","4","5","6","7","8","9"}
Range(s) == { s[i] : i \in DOMAIN s }

UpperSet == Range(UpperSeq)
LowerSet == Range(LowerSeq)

is_uppercase(ch) == ch \in UpperSet
is_lowercase(ch) == ch \in LowerSet
is_alphanumeric(ch) == is_uppercase(ch) \/ is_lowercase(ch) \/ ch \in DigitSet
to_lowercase(ch) ==
    IF is_uppercase(ch)
    THEN LowerSeq[CHOOSE i \in DOMAIN UpperSeq : UpperSeq[i] = ch]
    ELSE ch

(* proc_macro2::Ident::new(value, span) panics unless `value` is an        *)
(* identifier: not empty, starting with a letter or '_', continuing with   *)
(* letters, digits or '_'.                                                 *)
is_ident_start(ch) == is_uppercase(ch) \/ is_lowercase(ch) \/ ch = "_"
is_ident_continue(ch) == is_alphanumeric(ch) \/ ch = "_"
is_ident(s) ==
    /\ Len(s) > 0
    /\ is_ident_start(s[1])
    /\ \A i \in DOMAIN s : is_ident_continue(s[i])

HasSuffix(s, suf) ==
    /\ Len(s) >= Len(suf)
    /\ SubSeq(s, Len(s) - Len(suf) + 1, Len(s)) = suf
DropLast(s, n) == SubSeq(s, 1, Len(s) - n)

-----------------------------------------------------------------------------
(* Inflector::to_snake_case, the conversion called at lib.rs:212 and 221   *)
(* (inflector::cases::case::to_case_snake_like with "_" and lower case).   *)

\* trim_end_matches(is_not_alphanumeric)
RECURSIVE trim_right(_)
trim_right(s) ==
    IF Len(s) > 0 /\ ~is_alphanumeric(s[Len(s)])
    THEN trim_right(DropLast(s, 1))
    ELSE s

\* char at position i (1-based), or 'A' past either end: chars().nth(..).unwrap_or('A')
nth_or_A(s, i) == IF i \in DOMAIN s THEN s[i] ELSE "A"

next_or_previous_char_is_lowercase(s, i) ==
    is_lowercase(nth_or_A(s, i + 1)) \/ is_lowercase(nth_or_A(s, i - 1))

requires_seperator(s, i, first_character) ==
    /\ ~first_character
    /\ is_uppercase(s[i])
    /\ next_or_previous_char_is_lowercase(s, i)

\* the `for` loop over the characters of the trimmed string t; `s` is the
\* untrimmed string, which the look-around of requires_seperator reads.
RECURSIVE snake_loop(_, _, _, _, _)
snake_loop(t, s, i, first_character, result) ==
    IF i > Len(t) THEN result
    ELSE IF ~is_alphanumeric(t[i])
         THEN IF ~first_character
              THEN snake_loop(t, s, i + 1, TRUE, Append(result, "_"))
              ELSE snake_loop(t, s, i + 1, first_character, result)
         ELSE IF requires_seperator(s, i, first_character)
              THEN snake_loop(t, s, i + 1, FALSE,
                              result \o <<"_", to_lowercase(t[i])>>)
              ELSE snake_loop(t, s, i + 1, FALSE,
                              Append(result, to_lowercase(t[i])))

to_snake_case(s) == snake_loop(trim_right(s), s, 1, TRUE, << >>)

-----------------------------------------------------------------------------
(* Inflector::to_plural, the conversion called at lib.rs:207.  The rules   *)
(* are tried last to first and the first that matches wins; a name that    *)
(* matches none gets "s".  The rules kept here are the suffix rules; the   *)
(* rules for irregular nouns (child, person, mouse, matrix, ...) match     *)
(* none of the names of BaseNames.                                         *)
Vowels == {"a","e","i","o","u"}
UNACCONTABLE_WORDS == { <<"s","h","e","e","p">>, <<"d","a","t","a">> }

\* (x|ch|ss|sh|zz)$
ends_sibilant(s) ==
    \/ HasSuffix(s, <<"x">>)
    \/ HasSuffix(s, <<"c","h">>)
    \/ HasSuffix(s, <<"s","s">>)
    \/ HasSuffix(s, <<"s","h">>)
    \/ HasSuffix(s, <<"z","z">>)

\* ([^aeiouy]|qu)y$
ends_consonant_y(s) ==
    /\ Len(s) >= 2
    /\ s[Len(s)] = "y"
    /\ \/ s[Len(s) - 1] \notin (Vowels \cup {"y"})
       \/ HasSuffix(s, <<"q","u","y">>)

to_plural(s) ==
    IF s \in UNACCONTABLE_WORDS THEN s
    ELSE IF ends_sibilant(s) THEN s \o <<"e","s">>
    ELSE IF HasSuffix(s, <<"e","s">>) /\ ends_sibilant(DropLast(s, 2)) THEN s
    ELSE IF ends_consonant_y(s) THEN DropLast(s, 1) \o <<"i","e","s">>
    ELSE IF HasSuffix(s, <<"s">>) THEN s
    ELSE s \o <<"s">>

-----------------------------------------------------------------------------
(* mod builder (lib.rs:133-228).                                           *)

\* The outcome of a call that may panic: the value, or a panic.
Returned(v) == [panicked |-> FALSE, value |-> v]
Panicked == [panicked |-> TRUE, value |-> None]

\* Ident::new(value, Span::call_site())
Ident_new(value) == IF is_ident(value) THEN Returned(value) ELSE Panicked

\* variant: the suffix is put in front of the name
format_ident_prefixed(name_s, suffix) == Ident_new(suffix \o name_s)

\* format_ident!("{}AndMetadata", name_s) and format_ident!("{}Tag", name_s)
format_ident(name_s, suffix) == Ident_new(name_s \o suffix)

AndMetadataLit == <<"A","n","d","M","e","t","a","d","a","t","a">>
TagLit == <<"T","a","g">>
MetadataLit == <<"M","e","t","a","d","a","t","a">>

\* StraitJacketBuilder::new
new(name) ==
    [ name |-> name,
      name_snake |-> None,
      name_and_metadata |-> None,
      name_tag |-> None,
      plural |-> None,
      plural_snake |-> None,
      metadata |-> None ]

\* variant: a slot that is already set keeps its value (get_or_insert)
attribute_first_wins(self, id, value) ==
    LET ident == Ident_new(value)
    IN  IF ident.panicked THEN Panicked
        ELSE IF is_some(self[id]) THEN Returned(self)
        ELSE Returned([self EXCEPT ![id] = Some(ident.value)])

\* attribute!($id): self.$id.replace(Ident::new(value, ..)); self
attribute(self, id, value) ==
    LET ident == Ident_new(value)
    IN  IF ident.panicked THEN Panicked
        ELSE Returned([self EXCEPT ![id] = Some(ident.value)])

\* StraitJacketBuilder::set
set(self, field, value) ==
    CASE field = "name_snake" -> attribute(self, "name_snake", value)
      [] field = "name_and_metadata" -> attribute(self, "name_and_metadata", value)
      [] field = "name_tag" -> attribute(self, "name_tag", value)
      [] field = "plural" -> attribute(self, "plural", value)
      [] field = "plural_snake" -> attribute(self, "plural_snake", value)
      [] field = "metadata" -> attribute(self, "metadata", value)
      [] OTHER -> Returned(self)

\* Option::unwrap_or_else: the closure runs only when the slot is None
unwrap_or_else(slot, default) == IF is_some(slot) THEN Returned(unwrap(slot)) ELSE default

\* StraitJacket::new
StraitJacket_new(name, name_snake, name_and_metadata, name_tag, plural, plural_snake, metadata) ==
    [ name |-> name,
      name_snake |-> name_snake,
      name_and_metadata |-> name_and_metadata,
      name_tag |-> name_tag,
      plural |-> plural,
      plural_snake |-> plural_snake,
      metadata |-> metadata ]

\* StraitJacketBuilder::build
build(self) ==
    LET name_s == self.name
        plural == to_plural(name_s)
        a_name_snake ==
            unwrap_or_else(self.name_snake, Ident_new(to_snake_case(name_s)))
        a_name_and_metadata ==
            unwrap_or_else(self.name_and_metadata, format_ident(name_s, AndMetadataLit))
        a_name_tag ==
            unwrap_or_else(self.name_tag, format_ident(name_s, TagLit))
        a_plural ==
            unwrap_or_else(self.plural, Ident_new(plural))
        a_plural_snake ==
            unwrap_or_else(self.plural_snake, Ident_new(to_snake_case(plural)))
        a_metadata ==
            unwrap_or_else(self.metadata, Ident_new(MetadataLit))
    IN  IF \/ a_name_snake.panicked
           \/ a_name_and_metadata.panicked
           \/ a_name_tag.panicked
           \/ a_plural.panicked
           \/ a_plural_snake.panicked
           \/ a_metadata.panicked
        THEN Panicked
        ELSE Returned(StraitJacket_new(self.name,
                                       a_name_snake.value,
                                       a_name_and_metadata.value,
                                       a_name_tag.value,
                                       a_plural.value,
                                       a_plural_snake.value,
                                       a_metadata.value))

-----------------------------------------------------------------------------
(* mod parser (lib.rs:230-283).                                            *)
(* A NestedMeta is [nested, meta, path, lit]: nested is "Meta" or "Lit";   *)
(* meta is "NameValue", "Path" or "List"; path is [leading_colon,          *)
(* segments]; lit is [kind, value] with kind "Str", "Int" or "Bool".       *)

\* variant: the last segment of any path is taken as the key
get_ident_last_segment(path) ==
    IF Len(path.segments) >= 1
    THEN Some(path.segments[Len(path.segments)])
    ELSE None

\* syn::Path::get_ident
get_ident(path) ==
    IF ~path.leading_colon /\ Len(path.segments) = 1
    THEN Some(path.segments[1])
    ELSE None

\* parser::get_key_value
get_key_value(mnv) ==
    IF mnv.lit.kind = "Str"
    THEN IF is_some(get_ident(mnv.path))
         THEN Some([ident |-> unwrap(get_ident(mnv.path)), lit |-> mnv.lit])
         ELSE None
    ELSE None

\* the closure of parser::get_attributes_and_values, on one NestedMeta
filter_map_closure(nestedmeta) ==
    IF nestedmeta.nested = "Meta" /\ nestedmeta.meta = "NameValue"
    THEN get_key_value(nestedmeta)
    ELSE None

-----------------------------------------------------------------------------
(* Inputs of one expansion.                                                *)

Plan == <<"P","l","a","n">>
MappingRule == <<"M","a","p","p","i","n","g","R","u","l","e">>
Proxy == <<"P","r","o","x","y">>
Address == <<"A","d","d","r","e","s","s">>
Underscores == <<"_","_">>
BaseNames == { Plan, MappingRule, Proxy, Address, Underscores }

Plans2 == <<"P","l","a","n","s","2">>
PlanSets == <<"P","l","a","n","S","e","t","s">>
my_plans == <<"m","y","_","p","l","a","n","s">>
application_plan ==
    <<"a","p","p","l","i","c","a","t","i","o","n","_","p","l","a","n">>
MyMetadata == <<"M","y","M","e","t","a","d","a","t","a">>
PTag == <<"P","T","a","g">>
PEnv == <<"P","E","n","v">>
Bar == <<"B","a","r">>
Empty == << >>
not_ident == <<"n","o"," ","i","d">>

SimplePath(key) == [leading_colon |-> FALSE, segments |-> <<key>>]
NameValue(path, kind, value) ==
    [nested |-> "Meta", meta |-> "NameValue", path |-> path,
     lit |-> [kind |-> kind, value |-> value]]

\* key = "value" entries with a recognized key and an identifier as value
ValidEntries ==
    { NameValue(SimplePath("plural"), "Str", Plans2),
      NameValue(SimplePath("plural"), "Str", PlanSets),
      NameValue(SimplePath("plural_snake"), "Str", my_plans),
      NameValue(SimplePath("name_snake"), "Str", application_plan),
      NameValue(SimplePath("metadata"), "Str", MyMetadata),
      NameValue(SimplePath("name_tag"), "Str", PTag),
      NameValue(SimplePath("name_and_metadata"), "Str", PEnv) }

\* entries the parser or the builder ignores
IgnoredEntries ==
    { \* unknown key
      NameValue(SimplePath("foo"), "Str", Bar),
      \* plural = true: the value is no string literal
      NameValue(SimplePath("plural"), "Bool", <<"t","r","u","e">>),
      \* a::plural = "Bar": the key is a qualified path
      NameValue([leading_colon |-> FALSE, segments |-> <<"a", "plural">>], "Str", Bar),
      \* plural alone: Meta::Path
      [nested |-> "Meta", meta |-> "Path", path |-> SimplePath("plural"),
       lit |-> [kind |-> "Str", value |-> Empty]],
      \* "plural": NestedMeta::Lit
      [nested |-> "Lit", meta |-> "Path", path |-> SimplePath("plural"),
       lit |-> [kind |-> "Str", value |-> Bar]] }

\* key = "value" entries with a recognized key whose value is no identifier
NonIdentEntries ==
    { NameValue(SimplePath("plural"), "Str", Empty),
      NameValue(SimplePath("name_snake"), "Str", not_ident) }

AttrEntries == ValidEntries \cup IgnoredEntries \cup NonIdentEntries

SeqsUpTo(S, n) == UNION { [1..k -> S] : k \in 0..n }

\* The struct the attribute is on: its name and its fields, opaque tokens.
FieldLists == { <<"id">>, <<"id", "last">> }
Items == [ ident : BaseNames, fields : FieldLists ]

-----------------------------------------------------------------------------
(* The generated definitions (lib.rs:350-399), as the sequence of items    *)
(* of quoted_plural.                                                       *)
quoted_plural(s) ==
    << [ def |-> "struct", ident |-> s.name_and_metadata,
         fields |-> << [attr |-> <<"flatten">>, ident |-> "item",
                        ty |-> Some(s.name)],
                       [attr |-> <<"flatten", "skip_serializing">>,
                        ident |-> "metadata", ty |-> Some(s.metadata)] >> ],
       [ def |-> "enum", ident |-> s.name_tag,
         fields |-> << [attr |-> <<"rename", s.name_snake>>, ident |-> "Tag",
                        ty |-> Some(s.name_and_metadata)] >> ],
       [ def |-> "struct", ident |-> s.plural,
         fields |-> << [attr |-> <<"rename", s.plural_snake>>,
                        ident |-> s.plural_snake, ty |-> Some(s.name_tag)] >> ],
       [ def |-> "impl From", ident |-> s.plural,
         fields |-> << [attr |-> << >>, ident |-> "from", ty |-> Some(s.name)] >> ],
       [ def |-> "impl From", ident |-> s.name_and_metadata,
         fields |-> << [attr |-> << >>, ident |-> "from", ty |-> Some(s.plural)] >> ],
       [ def |-> "impl From", ident |-> s.name,
         fields |-> << [attr |-> << >>, ident |-> "from", ty |-> Some(s.plural)] >> ] >>

\* variant: the generated code is put before the item
emit_generated_first(clone, s) == quoted_plural(s) \o << clone >>

\* lib.rs:402-404: vec![c, quoted_plural.into()] collected into a TokenStream
emit(clone, s) == << clone >> \o quoted_plural(s)

-----------------------------------------------------------------------------
(* The macro, fn straitjacket (lib.rs:309-405).                            *)

MacroIdle ==
    /\ c = None /\ idx = 0 /\ sjbuilder = None /\ sj = None /\ output = None

RtIdle ==
    /\ mrvec = << >> /\ mr = None /\ origin = "none" /\ body = None
    /\ wire = None /\ back = None /\ envs = None /\ items = None /\ rpc = "idle"

Init ==
    /\ item \in Items
    /\ attr_ast \in SeqsUpTo(AttrEntries, MaxAttrs)
    /\ pc = "start"
    /\ MacroIdle
    /\ RtIdle

\* lib.rs:315-325: clone the item, parse both inputs, create the builder
Start ==
    /\ pc = "start"
    /\ c' = Some(item)
    /\ sjbuilder' = Some(new(item.ident))
    /\ idx' = 1
    /\ pc' = "attrs"
    /\ UNCHANGED <<item, attr_ast, sj, output>>
    /\ UNCHANGED rt_vars

\* lib.rs:328 with 271-281: the filter_map drops the entry, the loop body
\* does not run for it
AttrDropped ==
    /\ pc = "attrs"
    /\ idx <= Len(attr_ast)
    /\ ~is_some(filter_map_closure(attr_ast[idx]))
    /\ idx' = idx + 1
    /\ UNCHANGED <<item, attr_ast, c, sjbuilder, sj, output, pc>>
    /\ UNCHANGED rt_vars

\* lib.rs:329-332: the body of the loop on one (ident, lit) pair
loop_body(b, pair) ==
    IF pair.lit.kind = "Str"
    THEN set(b, pair.ident, pair.lit.value)
    ELSE Returned(b)

\* lib.rs:328-333: one iteration that returns
AttrApplied ==
    /\ pc = "attrs"
    /\ idx <= Len(attr_ast)
    /\ is_some(filter_map_closure(attr_ast[idx]))
    /\ LET r == loop_body(unwrap(sjbuilder), unwrap(filter_map_closure(attr_ast[idx])))
       IN  /\ ~r.panicked
           /\ sjbuilder' = Some(r.value)
    /\ idx' = idx + 1
    /\ UNCHANGED <<item, attr_ast, c, sj, output, pc>>
    /\ UNCHANGED rt_vars

\* lib.rs:141: Ident::new panics on the value, the expansion is aborted
AttrPanic ==
    /\ pc = "attrs"
    /\ idx <= Len(attr_ast)
    /\ is_some(filter_map_closure(attr_ast[idx]))
    /\ loop_body(unwrap(sjbuilder), unwrap(filter_map_closure(attr_ast[idx]))).panicked
    /\ pc' = "panicked"
    /\ UNCHANGED <<item, attr_ast, c, idx, sjbuilder, sj, output>>
    /\ UNCHANGED rt_vars

\* lib.rs:336: sjbuilder.build() returns
Build ==
    /\ pc = "attrs"
    /\ idx > Len(attr_ast)
    /\ LET r == build(unwrap(sjbuilder))
       IN  /\ ~r.panicked
           /\ sj' = Some(r.value)
    /\ pc' = "built"
    /\ UNCHANGED <<item, attr_ast, c, idx, sjbuilder, output>>
    /\ UNCHANGED rt_vars

\* lib.rs:212, 221: Ident::new panics on a default that is no identifier
BuildPanic ==
    /\ pc = "attrs"
    /\ idx > Len(attr_ast)
    /\ build(unwrap(sjbuilder)).panicked
    /\ pc' = "panicked"
    /\ UNCHANGED <<item, attr_ast, c, idx, sjbuilder, sj, output>>
    /\ UNCHANGED rt_vars

\* lib.rs:339-404: quote the generated code and emit it after the clone
Emit ==
    /\ pc = "built"
    /\ output' = Some(emit(unwrap(c), unwrap(sj)))
    /\ pc' = "done"
    /\ UNCHANGED <<item, attr_ast, c, idx, sjbuilder, sj>>
    /\ UNCHANGED rt_vars

Next ==
    \/ Start
    \/ AttrDropped
    \/ AttrApplied
    \/ AttrPanic
    \/ Build
    \/ BuildPanic
    \/ Emit

Spec == Init /\ [][Next]_vars

-----------------------------------------------------------------------------
(* The generated code at run time, for the tests' declaration              *)
(*   #[straitjacket(metadata = "MyMetadata")] struct MappingRule {..}      *)
(* (tests/straitjacket.rs:19-29).                                          *)

MappingRuleItem == [ident |-> MappingRule, fields |-> <<"id", "last">>]
MappingRuleAttrs == << NameValue(SimplePath("metadata"), "Str", MyMetadata) >>
MappingRuleSj == build(set(new(MappingRule), "metadata", MyMetadata).value).value

\* the serde attributes the expansion put on the fields (lib.rs:353-366)
AttrsOf(defs, n, field) ==
    LET fs == defs[n].fields
    IN  fs[CHOOSE i \in DOMAIN fs : fs[i].ident = field].attr
item_attrs == Range(AttrsOf(quoted_plural(MappingRuleSj), 1, "item"))
metadata_attrs == Range(AttrsOf(quoted_plural(MappingRuleSj), 1, "metadata"))
tag_rename == AttrsOf(quoted_plural(MappingRuleSj), 2, "Tag")[2]
collection_rename ==
    AttrsOf(quoted_plural(MappingRuleSj), 3, MappingRuleSj.plural_snake)[2]

\* MappingRule's fields, and MyMetadata's (tests/straitjacket.rs:13-17):
\* none has a default, so each is required when deserializing.
ItemFieldNames == Range(MappingRuleItem.fields)
MetaFieldNames == {"created_at", "links"}
FieldDomain(k) ==
    CASE k = "id" -> {"375841", "375842"}
      [] k = "last" -> {"false"}
      [] k = "created_at" -> {"2019-03-19T09:04:35Z"}
      [] k = "links" -> {"[]"}
AllFieldValues == UNION { FieldDomain(k) : k \in ItemFieldNames \cup MetaFieldNames }

\* values of MappingRule and of MyMetadata
ItemValues == { f \in [ItemFieldNames -> AllFieldValues] :
                    \A k \in ItemFieldNames : f[k] \in FieldDomain(k) }

\* flat JSON objects: a partial map from keys to values
Objects ==
    UNION { { f \in [K -> AllFieldValues] : \A k \in K : f[k] \in FieldDomain(k) } :
            K \in SUBSET (ItemFieldNames \cup MetaFieldNames) }

Restrict(f, K) == [k \in K |-> f[k]]
Merge(f, g) == [k \in DOMAIN f \cup DOMAIN g |-> IF k \in DOMAIN f THEN f[k] ELSE g[k]]
EmptyObject == [k \in {} |-> ""]

\* variant: skip_serializing is not honoured, metadata is written when present
serialize_envelope_with_metadata(e) ==
    IF is_some(e.metadata) THEN Merge(e.item, unwrap(e.metadata)) ELSE e.item

\* lib.rs:351-357, derive(Serialize) on the envelope: a flattened field
\* contributes its own fields, a skip_serializing field contributes nothing
serialize_envelope(e) ==
    LET item_part ==
            IF "skip_serializing" \in item_attrs THEN EmptyObject ELSE e.item
        metadata_part ==
            IF "skip_serializing" \in metadata_attrs \/ ~is_some(e.metadata)
            THEN EmptyObject
            ELSE unwrap(e.metadata)
    IN  Merge(item_part, metadata_part)

\* lib.rs:351-357, derive(Deserialize) on the envelope: the flattened item
\* needs all of its fields; the flattened Option is None when its type does
\* not deserialize from the object. Err is None.
deserialize_envelope(obj) ==
    IF ItemFieldNames \subseteq DOMAIN obj
    THEN Some([ item |-> Restrict(obj, ItemFieldNames),
                metadata |-> IF MetaFieldNames \subseteq DOMAIN obj
                             THEN Some(Restrict(obj, MetaFieldNames))
                             ELSE None ])
    ELSE None

\* lib.rs:358-362: the externally tagged enum with its renamed variant
Tag(e) == [variant |-> "Tag", v |-> e]
serialize_tag(t) == [k \in {tag_rename} |-> serialize_envelope(t.v)]
deserialize_tag(o) ==
    IF DOMAIN o = {tag_rename} /\ is_some(deserialize_envelope(o[tag_rename]))
    THEN Some(Tag(unwrap(deserialize_envelope(o[tag_rename]))))
    ELSE None

\* lib.rs:363-367: the collection with its renamed field
serialize_collection(coll) ==
    [k \in {collection_rename} |-> [i \in DOMAIN coll.plural_snake |-> serialize_tag(coll.plural_snake[i])]]
deserialize_collection(o) ==
    IF /\ collection_rename \in DOMAIN o
       /\ \A i \in DOMAIN o[collection_rename] :
              is_some(deserialize_tag(o[collection_rename][i]))
    THEN Some([plural_snake |->
                  [i \in DOMAIN o[collection_rename] |->
                      unwrap(deserialize_tag(o[collection_rename][i]))]])
    ELSE None

\* variant: the envelope gets a metadata value instead of None
wrap_item_some_metadata(it) == Tag([item |-> it, metadata |-> Some(EmptyObject)])

\* lib.rs:369-380  impl From<Vec<#name>> for #plural
wrap_item(it) == Tag([item |-> it, metadata |-> None])
From_Vec(vec) == [plural_snake |-> [i \in DOMAIN vec |-> wrap_item(vec[i])]]

\* variant: the envelope is rebuilt from the item, its metadata lost
unwrap_tag_drop_metadata(t) == [item |-> t.v.item, metadata |-> None]

\* lib.rs:382-389  impl From<#plural> for Vec<#name_and_metadata>
unwrap_tag(t) == t.v
Into_Vec_Envelope(coll) ==
    [i \in DOMAIN coll.plural_snake |-> unwrap_tag(coll.plural_snake[i])]

\* variant: the items come out in reverse order
Into_Vec_Item_reversed(coll) ==
    [i \in DOMAIN coll.plural_snake |->
        coll.plural_snake[Len(coll.plural_snake) + 1 - i].v.item]

\* lib.rs:391-398  impl From<#plural> for Vec<#name>
unwrap_item(t) == t.v.item
Into_Vec_Item(coll) ==
    [i \in DOMAIN coll.plural_snake |-> unwrap_item(coll.plural_snake[i])]

\* the response bodies handed to the deserializer
WireBody(outer, inner, objs) ==
    [k \in {outer} |-> [i \in DOMAIN objs |-> [k2 \in {inner} |-> objs[i]]]]
Bodies ==
    { WireBody(MappingRuleSj.plural_snake, MappingRuleSj.name_snake, objs) :
          objs \in SeqsUpTo(Objects, MaxLen) }
    \cup { WireBody(MappingRuleSj.name_snake, MappingRuleSj.name_snake, << >>),
           WireBody(MappingRuleSj.plural_snake, MappingRuleSj.plural_snake,
                    << CHOOSE o \in Objects : DOMAIN o = ItemFieldNames >>) }

InitRt ==
    /\ item = MappingRuleItem
    /\ attr_ast = MappingRuleAttrs
    /\ c = Some(MappingRuleItem)
    /\ idx = Len(MappingRuleAttrs) + 1
    /\ sjbuilder = Some(set(new(MappingRule), "metadata", MyMetadata).value)
    /\ sj = Some(MappingRuleSj)
    /\ output = Some(emit(MappingRuleItem, MappingRuleSj))
    /\ pc = "done"
    /\ RtIdle

\* MappingRules::from(vec![..])  (tests/straitjacket.rs:42)
FromVec ==
    /\ rpc = "idle"
    /\ \E vec \in SeqsUpTo(ItemValues, MaxLen) :
          /\ mrvec' = vec
          /\ mr' = Some(From_Vec(vec))
    /\ origin' = "from_vec"
    /\ rpc' = "have"
    /\ UNCHANGED <<body, wire, back, envs, items>>
    /\ UNCHANGED macro_vars

\* serde_json::from_str(&body)  (tests/straitjacket.rs:124)
Parse ==
    /\ rpc = "idle"
    /\ \E b \in Bodies :
          /\ body' = Some(b)
          /\ mr' = deserialize_collection(b)
          /\ origin' = "parsed"
          /\ rpc' = IF is_some(deserialize_collection(b)) THEN "have" ELSE "failed"
    /\ UNCHANGED <<mrvec, wire, back, envs, items>>
    /\ UNCHANGED macro_vars

\* Vec::<MappingRuleAndMetadata>::from(mr.clone())
IntoEnvelopes ==
    /\ rpc = "have"
    /\ envs = None
    /\ envs' = Some(Into_Vec_Envelope(unwrap(mr)))
    /\ UNCHANGED <<mrvec, mr, origin, body, wire, back, items, rpc>>
    /\ UNCHANGED macro_vars

\* Vec::<MappingRule>::from(mr.clone())
IntoItems ==
    /\ rpc = "have"
    /\ items = None
    /\ items' = Some(Into_Vec_Item(unwrap(mr)))
    /\ UNCHANGED <<mrvec, mr, origin, body, wire, back, envs, rpc>>
    /\ UNCHANGED macro_vars

\* serde_json::to_string_pretty(&mapping_rules)  (tests/straitjacket.rs:62, 127)
Serialize ==
    /\ rpc = "have"
    /\ envs = None /\ items = None
    /\ wire' = Some(serialize_collection(unwrap(mr)))
    /\ rpc' = "serialized"
    /\ UNCHANGED <<mrvec, mr, origin, body, back, envs, items>>
    /\ UNCHANGED macro_vars

\* reading back what was written
Reparse ==
    /\ rpc = "serialized"
    /\ back' = Some(deserialize_collection(unwrap(wire)))
    /\ rpc' = "reparsed"
    /\ UNCHANGED <<mrvec, mr, origin, body, wire, envs, items>>
    /\ UNCHANGED macro_vars

NextRt ==
    \/ FromVec
    \/ Parse
    \/ IntoEnvelopes
    \/ IntoItems
    \/ Serialize
    \/ Reparse

SpecRt == InitRt /\ [][NextRt]_vars

-----------------------------------------------------------------------------
(* Properties of the expansion (checked under Spec).                       *)

RecognizedKeys ==
    {"name_snake", "name_and_metadata", "name_tag", "plural", "plural_snake", "metadata"}

\* an entry of the form  key = "string"  with a single plain identifier as key
WellFormedPair(e) ==
    /\ e.nested = "Meta" /\ e.meta = "NameValue"
    /\ e.lit.kind = "Str"
    /\ ~e.path.leading_colon /\ Len(e.path.segments) = 1
KeyOf(e) == e.path.segments[1]
SetMax(S) == CHOOSE x \in S : \A y \in S : y <= x

\* the value of the last well-formed pair for `key` among the first n entries
LastValueUpTo(key, n) ==
    LET I == { i \in 1..n : WellFormedPair(attr_ast[i]) /\ KeyOf(attr_ast[i]) = key }
    IN  IF I = {} THEN None ELSE Some(attr_ast[SetMax(I)].lit.value)
LastValue(key) == LastValueUpTo(key, Len(attr_ast))
Overridden(key) == is_some(LastValue(key))

Finished == pc \in {"built", "done"}

\* C1: when `plural` is overridden and `plural_snake` is not, the
\* plural_snake of the Identifier Set is the snake case of the overridden
\* plural.
C1_OverridePrecedence ==
    (Finished /\ Overridden("plural") /\ ~Overridden("plural_snake"))
        => unwrap(sj).plural_snake = to_snake_case(unwrap(LastValue("plural")))

\* C4: build() keeps the base name; every slot among name_snake,
\* name_and_metadata, name_tag, plural and metadata that was not overridden
\* holds its default whatever else was overridden; and with neither plural
\* nor plural_snake overridden, plural_snake is the snake case of the plural
\* of the base name.
C4_DefaultDerivation ==
    Finished =>
        LET n == item.ident
            r == unwrap(sj)
        IN  /\ r.name = n
            /\ ~Overridden("name_snake") => r.name_snake = to_snake_case(n)
            /\ ~Overridden("name_and_metadata") => r.name_and_metadata = n \o AndMetadataLit
            /\ ~Overridden("name_tag") => r.name_tag = n \o TagLit
            /\ ~Overridden("plural") => r.plural = to_plural(n)
            /\ ~Overridden("metadata") => r.metadata = MetadataLit
            /\ (~Overridden("plural") /\ ~Overridden("plural_snake"))
                   => r.plural_snake = to_snake_case(to_plural(n))

\* the scenario of tests/straitjacket.rs: MappingRule with metadata = "MyMetadata"
C4_Witness ==
    /\ pc = "done"
    /\ item.ident = MappingRule
    /\ attr_ast = MappingRuleAttrs
    /\ unwrap(sj) =
         [ name |-> MappingRule,
           name_snake |-> <<"m","a","p","p","i","n","g","_","r","u","l","e">>,
           name_and_metadata |-> <<"M","a","p","p","i","n","g","R","u","l","e",
                                   "A","n","d","M","e","t","a","d","a","t","a">>,
           name_tag |-> <<"M","a","p","p","i","n","g","R","u","l","e","T","a","g">>,
           plural |-> <<"M","a","p","p","i","n","g","R","u","l","e","s">>,
           plural_snake |-> <<"m","a","p","p","i","n","g","_","r","u","l","e","s">>,
           metadata |-> MyMetadata ]

\* C5: pairs are applied in input order and the last one wins: while the
\* loop runs every slot of the builder holds the value of the last
\* well-formed pair for its key among the entries already consumed, and the
\* Identifier Set holds, for every overridden key, the value of the last
\* well-formed pair for that key in the whole list.
C5_LastWriteWins ==
    /\ pc = "attrs" =>
          \A key \in RecognizedKeys :
              unwrap(sjbuilder)[key] = LastValueUpTo(key, idx - 1)
    /\ Finished =>
          \A key \in RecognizedKeys :
              Overridden(key) => unwrap(sj)[key] = unwrap(LastValue(key))

\* the same key twice with different values: the second one is in the result
C5_Witness ==
    /\ pc = "done"
    /\ Len(attr_ast) = 2
    /\ WellFormedPair(attr_ast[1]) /\ WellFormedPair(attr_ast[2])
    /\ KeyOf(attr_ast[1]) = "plural" /\ KeyOf(attr_ast[2]) = "plural"
    /\ attr_ast[1].lit.value # attr_ast[2].lit.value
    /\ unwrap(sj).plural = attr_ast[2].lit.value

\* C6: ignored entries have no effect
Ignorable(e) == ~WellFormedPair(e) \/ KeyOf(e) \notin RecognizedKeys
NotIgnorable(e) == ~Ignorable(e)
RECURSIVE ApplyPairs(_, _)
ApplyPairs(b, entries) ==
    IF entries = << >> THEN b
    ELSE ApplyPairs(set(b, KeyOf(Head(entries)), Head(entries).lit.value).value,
                    Tail(entries))
KeptPrefix(n) == SelectSeq(SubSeq(attr_ast, 1, n), NotIgnorable)

\* C6: the builder after any number of entries, and the Identifier Set in the
\* end, are those obtained from the same list with every ignorable entry
\* (no key/value pair, value not a string, key not a plain identifier, key
\* not recognized) removed.
C6_IgnoredNoEffect ==
    /\ pc = "attrs" =>
          unwrap(sjbuilder) = ApplyPairs(new(item.ident), KeptPrefix(idx - 1))
    /\ Finished =>
          unwrap(sj) =
              build(ApplyPairs(new(item.ident), KeptPrefix(Len(attr_ast)))).value

\* a valid override followed by an ignorable entry with the same key
C6_Witness ==
    /\ pc = "done"
    /\ Len(attr_ast) = 2
    /\ NotIgnorable(attr_ast[1]) /\ Ignorable(attr_ast[2])
    /\ KeyOf(attr_ast[1]) = "plural"
    /\ "plural" \in Range(attr_ast[2].path.segments)
    /\ unwrap(sj).plural = attr_ast[1].lit.value

\* C7: neither set nor build() ever fails, and the seven fields of the
\* Identifier Set are identifiers
C7_NamingTotal ==
    /\ pc # "panicked"
    /\ Finished =>
          \A f \in RecognizedKeys \cup {"name"} : is_ident(unwrap(sj)[f])

\* C9: the output starts with the item as it was given and continues with
\* the envelope, the tag, the collection and the three conversions, in
\* that order.
C9_AdditiveOrdered ==
    pc = "done" =>
        LET out == unwrap(output)
            r == unwrap(sj)
        IN  /\ Len(out) = 7
            /\ out[1] = item
            /\ out[2].def = "struct" /\ out[2].ident = r.name_and_metadata
            /\ out[3].def = "enum" /\ out[3].ident = r.name_tag
            /\ out[4].def = "struct" /\ out[4].ident = r.plural
            /\ \A i \in 5..7 : out[i].def = "impl From"
            /\ out[5].ident = r.plural /\ out[5].fields[1].ty = Some(r.name)
            /\ out[6].ident = r.name_and_metadata /\ out[6].fields[1].ty = Some(r.plural)
            /\ out[7].ident = r.name /\ out[7].fields[1].ty = Some(r.plural)

C9_Witness ==
    /\ pc = "done"
    /\ Len(item.fields) = 2
    /\ Len(attr_ast) = MaxAttrs
    /\ unwrap(output)[1] = item

-----------------------------------------------------------------------------
(* Properties of the generated code (checked under SpecRt).                *)

Tags == unwrap(mr).plural_snake

\* C2: a list of items turned into a collection and back is the same list
C2_RoundTrip ==
    (origin = "from_vec" /\ is_some(items)) =>
        /\ Len(unwrap(items)) = Len(mrvec)
        /\ \A i \in DOMAIN mrvec : unwrap(items)[i] = mrvec[i]

C2_Witness ==
    /\ origin = "from_vec" /\ is_some(items)
    /\ Len(mrvec) = 2 /\ mrvec[1] # mrvec[2]
    /\ unwrap(items) = mrvec

\* C3: the collection built from a list holds one Tag per item, in order,
\* each the Tag variant around an envelope of that item with no metadata
C3_FromVecShape ==
    origin = "from_vec" =>
        /\ is_some(mr)
        /\ DOMAIN unwrap(mr) = {"plural_snake"}
        /\ Len(Tags) = Len(mrvec)
        /\ \A i \in DOMAIN mrvec :
              /\ Tags[i].variant = "Tag"
              /\ Tags[i].v.item = mrvec[i]
              /\ Tags[i].v.metadata = None

C3_Witness ==
    /\ origin = "from_vec"
    /\ Len(mrvec) = 2 /\ mrvec[1] # mrvec[2]
    /\ Len(Tags) = 2

\* C10: the envelope list of a collection is the envelopes of its Tags, in
\* order and unchanged; the item list is the items of those envelopes
C10_Unwrapping ==
    /\ is_some(envs) =>
          /\ Len(unwrap(envs)) = Len(Tags)
          /\ \A i \in DOMAIN Tags :
                /\ unwrap(envs)[i].item = Tags[i].v.item
                /\ unwrap(envs)[i].metadata = Tags[i].v.metadata
    /\ is_some(items) =>
          /\ Len(unwrap(items)) = Len(Tags)
          /\ \A i \in DOMAIN Tags : unwrap(items)[i] = Tags[i].v.item
    /\ (is_some(envs) /\ is_some(items)) =>
          unwrap(items) = [i \in DOMAIN unwrap(envs) |-> unwrap(envs)[i].item]

\* a parsed collection with metadata present on one element and absent on another
C10_Witness ==
    /\ origin = "parsed" /\ is_some(envs) /\ is_some(items)
    /\ Len(Tags) = 2
    /\ is_some(Tags[1].v.metadata) /\ ~is_some(Tags[2].v.metadata)
    /\ Tags[1].v.item # Tags[2].v.item

\* the flat objects of a wire document
EnvelopeObjects(doc) ==
    [i \in DOMAIN doc[collection_rename] |-> doc[collection_rename][i][tag_rename]]
WellKeyed(doc) ==
    /\ DOMAIN doc = {MappingRuleSj.plural_snake}
    /\ \A i \in DOMAIN doc[MappingRuleSj.plural_snake] :
          DOMAIN doc[MappingRuleSj.plural_snake][i] = {MappingRuleSj.name_snake}

\* C8: an envelope is written as exactly its item's fields, metadata present
\* or not; an object holding the item's fields is read with metadata present
\* when the metadata's fields are in it too and absent when they are not;
\* reading what was written gives the same items without metadata.
C8_EnvelopeAsymmetry ==
    /\ is_some(wire) =>
          /\ WellKeyed(unwrap(wire))
          /\ Len(EnvelopeObjects(unwrap(wire))) = Len(Tags)
          /\ \A i \in DOMAIN Tags :
                /\ DOMAIN EnvelopeObjects(unwrap(wire))[i] = ItemFieldNames
                /\ EnvelopeObjects(unwrap(wire))[i] = Tags[i].v.item
    /\ (origin = "parsed" /\ WellKeyed(unwrap(body))) =>
          LET objs == EnvelopeObjects(unwrap(body))
          IN  /\ is_some(mr) <=> \A i \in DOMAIN objs : ItemFieldNames \subseteq DOMAIN objs[i]
              /\ is_some(mr) =>
                    /\ Len(Tags) = Len(objs)
                    /\ \A i \in DOMAIN objs :
                          /\ Tags[i].v.item = Restrict(objs[i], ItemFieldNames)
                          /\ MetaFieldNames \subseteq DOMAIN objs[i]
                                => Tags[i].v.metadata = Some(Restrict(objs[i], MetaFieldNames))
                          /\ ~(MetaFieldNames \subseteq DOMAIN objs[i])
                                => Tags[i].v.metadata = None
    /\ is_some(back) =>
          /\ is_some(unwrap(back))
          /\ Len(unwrap(unwrap(back)).plural_snake) = Len(Tags)
          /\ \A i \in DOMAIN Tags :
                /\ unwrap(unwrap(back)).plural_snake[i].v.item = Tags[i].v.item
                /\ unwrap(unwrap(back)).plural_snake[i].v.metadata = None

\* a parsed envelope with metadata, written and read back
C8_Witness ==
    /\ origin = "parsed" /\ is_some(back)
    /\ Len(Tags) = 2
    /\ is_some(Tags[1].v.metadata) /\ ~is_some(Tags[2].v.metadata)
    /\ DOMAIN EnvelopeObjects(unwrap(body))[2] # ItemFieldNames

====
